---- MODULE Spec2Model ----
(***************************************************************************)
(* dbg-ranges: Debug implementations that collapse runs of adjacent items. *)
(*                                                                         *)
(* The module models src/src/lib.rs:                                       *)
(*   - the IsAdjacent implementations for the integer types and for char,  *)
(*   - the constructors DebugAdjacent::new / DebugAdjacentBy::new,         *)
(*   - the two Debug::fmt implementations, statement by statement, over a  *)
(*     Peekable slice iterator and an output sink whose writes may fail.   *)
(*                                                                         *)
(* Text is a sequence of one-character strings.  References into the slice *)
(* (first, this, last, next) are positions 1..Len(items).  Option<T> is    *)
(* None == << >> and Some(x) == << x >>.                                   *)
(***************************************************************************)
EXTENDS Integers, Sequences, FiniteSets, TLC

VARIABLES
    elem,        \* the element type T of the slice
    items,       \* the borrowed slice &[T]
    obj,         \* the formatter struct under use: variant, sep, is_adjacent
    made,        \* the variants already constructed over this slice
    prev,        \* what the previous formatter wrote, when it returned Ok
    pc,          \* position inside fmt
    result,      \* what fmt returned: "none" while running
    need_comma,  \* local of fmt
    iter,        \* local of fmt: Peekable<slice::Iter>
    first,       \* local of fmt: Option of a position
    this,        \* local of fmt: Option of a position
    last,        \* local of fmt: Option<&T>
    writes,      \* the calls made on the sink, in order, each with its outcome
    evals,       \* the predicate evaluations made, in order, as <<left, right>>
    probe        \* one application of IsAdjacent::is_adjacent: type, operands, result

vars == <<elem, items, obj, made, prev, pc, result, need_comma, iter, first, this,
          last, writes, evals, probe>>

frame == <<pc, result, need_comma, iter, first, this, last, writes, evals>>

----------------------------------------------------------------------------
(* Bounds of the model *)

\* longest slice formatted
MaxLen == 3

\* how far from a type's boundary values the sampled operands of is_adjacent reach
Win == 2

----------------------------------------------------------------------------
(* Option and text *)

None == << >>

Some(x) == << x >>

Text(s) == CASE s = "-"  -> << "-" >>
             [] s = ".." -> << ".", "." >>
             [] s = ", " -> << ",", " " >>

DigitChars == << "0", "1", "2", "3", "4", "5", "6", "7", "8", "9" >>

RECURSIVE UDigits(_)
UDigits(n) == IF n < 10 THEN << DigitChars[n + 1] >>
              ELSE UDigits(n \div 10) \o << DigitChars[(n % 10) + 1] >>

\* <T as Debug>::fmt for an integer with the default flags: its decimal text
DebugText(n) == IF n < 0 THEN << "-" >> \o UDigits(0 - n) ELSE UDigits(n)

----------------------------------------------------------------------------
(* IsAdjacent for the integer types *)

IntTypes == { "u8", "u16", "i8", "i16" }

Bits(t) == IF t \in { "u8", "i8" } THEN 8 ELSE 16

Signed(t) == t \in { "i8", "i16" }

IntMin(t) == IF Signed(t) THEN 0 - 2 ^ (Bits(t) - 1) ELSE 0

IntMax(t) == IF Signed(t) THEN 2 ^ (Bits(t) - 1) - 1 ELSE 2 ^ Bits(t) - 1

\* the result wraps around the type's range (wrapping_sub)
wrapping_sub(t, x, y) == Some(((x - y - IntMin(t)) % (2 ^ Bits(t))) + IntMin(t))

\* x.checked_sub(y): None when x - y is outside the type's range
checked_sub(t, x, y) ==
    LET d == x - y
    IN  IF d < IntMin(t) \/ d > IntMax(t) THEN None ELSE Some(d)

\* other.checked_sub(*self) == Some(1)
is_adjacent_int(t, self, other) == checked_sub(t, other, self) = Some(1)

----------------------------------------------------------------------------
(* IsAdjacent for char *)

CharMax == 1114111

SurrogateLo == 55296

SurrogateHi == 57343

\* x == u32::MAX, written on the two 16-bit halves of x
U32IsMax(x) == (x \div 65536 = 65535) /\ (x % 65536 = 65535)

\* x.checked_add(1) on u32
checked_add_one_u32(x) == IF U32IsMax(x) THEN None ELSE Some(x + 1)

\* char::from_u32: None for a surrogate and for a value above char::MAX
from_u32(x) ==
    IF x > CharMax \/ (x >= SurrogateLo /\ x <= SurrogateHi) THEN None ELSE Some(x)

\* the successor that steps over the surrogate gap (what Step::forward does)
is_adjacent_char_step(self, next) ==
    IF self = SurrogateLo - 1 THEN next = SurrogateHi + 1 ELSE next = self + 1

\* <char as IsAdjacent>::is_adjacent, on code points
is_adjacent_char(self, next) ==
    LET a == checked_add_one_u32(self)
    IN  IF a # None
        THEN LET c == from_u32(a[1])
             IN  IF c # None THEN c[1] = next ELSE FALSE
        ELSE FALSE

----------------------------------------------------------------------------
(* The inputs of the formatters *)

\* the element type T of the slices the formatters are run on
ElemType == "i8"

\* the element values the slices are drawn from: the type's boundaries and
\* the values of the chained predicate
Pool == { IntMin(ElemType), IntMin(ElemType) + 1, 1, 2, 4, IntMax(ElemType) }

RECURSIVE SeqsUpTo(_, _)
SeqsUpTo(S, n) ==
    IF n = 0 THEN { << >> }
    ELSE LET shorter == SeqsUpTo(S, n - 1)
         IN  shorter \cup { Append(q, x) : q \in { r \in shorter : Len(r) = n - 1 }, x \in S }

Slices == SeqsUpTo(Pool, MaxLen)

\* the separators a caller stores in the pub field sep
Seps == { Text("-"), Text("..") }

\* the closures a caller hands to DebugAdjacentBy::new
Closures == { "succ", "chain" }

\* |&a, &b| a + 1 == b on T: at a == T::MAX the addition overflows, which
\* panics with overflow checks on and wraps with them off
closure_succ(a, b) ==
    IF a = IntMax(elem)
    THEN { "panic", IF IntMin(elem) = b THEN "true" ELSE "false" }
    ELSE { IF a + 1 = b THEN "true" ELSE "false" }

\* a non-transitive predicate: true for the pairs (1, 2) and (2, 4) only
closure_chain(a, b) ==
    { IF (a = 1 /\ b = 2) \/ (a = 2 /\ b = 4) THEN "true" ELSE "false" }

\* the closure called with its arguments exchanged
ApplyClosureSwapped(f, a, b) ==
    CASE f = "succ"  -> closure_succ(b, a)
      [] f = "chain" -> closure_chain(b, a)

\* (self.is_adjacent)(this, next): the outcomes the call can have
ApplyClosure(f, a, b) ==
    CASE f = "succ"  -> closure_succ(a, b)
      [] f = "chain" -> closure_chain(a, b)

\* this.is_adjacent(next) through the IsAdjacent impl of T: it has one outcome
ApplyIsAdjacent(a, b) == { IF is_adjacent_int(elem, a, b) THEN "true" ELSE "false" }

----------------------------------------------------------------------------
(* The formatter structs *)

NoObj == [ variant |-> "none", sep |-> << >>, is_adjacent |-> "none" ]

\* DebugAdjacent::new(items)
DebugAdjacent_new == [ variant |-> "adjacent", sep |-> Text("-"), is_adjacent |-> "IsAdjacent" ]

\* a constructor whose default separator differs from DebugAdjacent's
DebugAdjacentBy_new_dots(f) == [ variant |-> "by", sep |-> Text(".."), is_adjacent |-> f ]

\* DebugAdjacentBy::new(items, is_adjacent)
DebugAdjacentBy_new(f) == [ variant |-> "by", sep |-> Text("-"), is_adjacent |-> f ]

NoPrev == [ variant |-> "none", sep |-> << >>, is_adjacent |-> "none", writes |-> << >> ]

----------------------------------------------------------------------------
(* Peekable<slice::Iter<T>> *)

\* slice::Iter::next at position pos: the item and the position after it
SliceNext(pos) ==
    IF pos <= Len(items)
    THEN [ value |-> Some(pos), pos |-> pos + 1 ]
    ELSE [ value |-> None, pos |-> pos ]

\* Peekable::next: the peeked item when there is one, else the inner next
PeekableNext(it) ==
    IF it.peeked # None
    THEN [ value |-> it.peeked[1], it |-> [ it EXCEPT !.peeked = None ] ]
    ELSE LET r == SliceNext(it.pos)
         IN  [ value |-> r.value, it |-> [ it EXCEPT !.pos = r.pos ] ]

\* Peekable::peek: fills the peeked slot from the inner iterator once
PeekablePeek(it) ==
    IF it.peeked # None
    THEN [ value |-> it.peeked[1], it |-> it ]
    ELSE LET r == SliceNext(it.pos)
         IN  [ value |-> r.value, it |-> [ pos |-> r.pos, peeked |-> Some(r.value) ] ]

\* the number of items the iterator has handed out through next
Consumed(it) == IF it.peeked # None /\ it.peeked[1] # None THEN it.pos - 2 ELSE it.pos - 1

----------------------------------------------------------------------------
(* The statements of fmt *)

NeedCommaInitSet == TRUE

\* let mut need_comma = false
NeedCommaInit == FALSE

NeedCommaNever == FALSE

\* need_comma = true
NeedCommaSet == TRUE

\* the predicate applied to the run's first item
LeftOperandFirst(f, t) == f

\* the left operand of the adjacency test: this
LeftOperand(f, t) == t

\* the peeked item is left in the iterator
AdvanceForgotten(it) == it

\* _ = iter.next()
Advance(it) == PeekableNext(it).it

\* a failed write is ignored
QuestionIgnored(ok, cont) == cont

\* the ? on a write: a failure returns from fmt, a success goes on
Question(ok, cont) == IF ok THEN cont ELSE "returned"

\* a run is written as a range only when it has three items or more
IsRangeLong(f, l) == l # None /\ l[1] > f[1] + 1

\* if let Some(last) = last
IsRange(f, l) == l # None

\* one call on the sink: f.write_str(text) or <T as Debug>::fmt(item, f);
\* at is the position of the item written, 0 for a separator
Write(kind, at, text, ok, cont) ==
    /\ writes' = Append(writes, [ kind |-> kind, at |-> at, text |-> text, ok |-> ok ])
    /\ pc' = Question(ok, cont)
    /\ result' = IF Question(ok, cont) = "returned" THEN "Err" ELSE result

NoProbe == [ type |-> "none", self |-> 0, other |-> 0, ret |-> "unset" ]

Idle ==
    /\ pc = "idle"
    /\ result = "none"
    /\ need_comma = FALSE
    /\ iter = [ pos |-> 1, peeked |-> None ]
    /\ first = None
    /\ this = None
    /\ last = None
    /\ writes = << >>
    /\ evals = << >>

\* a slice exists; no formatter has been constructed over it
Init ==
    /\ elem = ElemType
    /\ items \in Slices
    /\ obj = NoObj
    /\ made = { }
    /\ prev = NoPrev
    /\ Idle
    /\ probe = NoProbe

\* debug_adjacent(items) / DebugAdjacent::new(items)
New ==
    /\ obj = NoObj
    /\ "adjacent" \notin made
    /\ obj' = DebugAdjacent_new
    /\ made' = made \cup { "adjacent" }
    /\ UNCHANGED <<elem, items, prev, frame, probe>>

\* debug_adjacent_by(items, f) / DebugAdjacentBy::new(items, f)
NewBy ==
    /\ obj = NoObj
    /\ "by" \notin made
    /\ \E f \in Closures : obj' = DebugAdjacentBy_new(f)
    /\ made' = made \cup { "by" }
    /\ UNCHANGED <<elem, items, prev, frame, probe>>

\* a store to the pub field sep, before the struct is formatted
SetSep ==
    /\ obj # NoObj
    /\ pc = "idle"
    /\ \E s \in Seps \ { obj.sep } : obj' = [ obj EXCEPT !.sep = s ]
    /\ UNCHANGED <<elem, items, made, prev, frame, probe>>

\* <DebugAdjacent as Debug>::fmt is entered: need_comma and the iterator are set up
FmtEnter ==
    /\ obj.variant = "adjacent"
    /\ pc = "idle"
    /\ pc' = "outer"
    /\ need_comma' = NeedCommaInit
    /\ iter' = [ pos |-> 1, peeked |-> None ]
    /\ UNCHANGED <<elem, items, obj, made, prev, result, first, this, last, writes, evals, probe>>

\* while let Some(first) = iter.next(); Ok(()) when the iterator is exhausted
OuterNext ==
    /\ obj.variant = "adjacent"
    /\ pc = "outer"
    /\ LET r == PeekableNext(iter)
       IN  /\ iter' = r.it
           /\ IF r.value = None
              THEN /\ pc' = "returned"
                   /\ result' = "Ok"
                   /\ UNCHANGED first
              ELSE /\ pc' = "run_start"
                   /\ first' = r.value
                   /\ UNCHANGED result
    /\ UNCHANGED <<elem, items, obj, made, prev, need_comma, this, last, writes, evals, probe>>

\* if need_comma { f.write_str(", ")?; } need_comma = true; this = first; last = None
RunStart ==
    /\ obj.variant = "adjacent"
    /\ pc = "run_start"
    /\ IF need_comma
       THEN \E ok \in BOOLEAN : Write("comma", 0, Text(", "), ok, "inner")
       ELSE /\ pc' = "inner"
            /\ UNCHANGED <<writes, result>>
    /\ IF pc' = "inner"
       THEN /\ need_comma' = NeedCommaSet
            /\ this' = first
            /\ last' = None
       ELSE UNCHANGED <<need_comma, this, last>>
    /\ UNCHANGED <<elem, items, obj, made, prev, iter, first, evals, probe>>

\* one turn of the inner loop: peek, this.is_adjacent(next), extend the run or break
InnerStep ==
    /\ obj.variant = "adjacent"
    /\ pc = "inner"
    /\ LET p == PeekablePeek(iter)
       IN  IF p.value = None
           THEN /\ iter' = p.it
                /\ pc' = "emit_first"
                /\ UNCHANGED <<this, last, evals, result>>
           ELSE LET next == p.value[1]
                    left == LeftOperand(first, this)[1]
                IN  /\ evals' = Append(evals, << left, next >>)
                    /\ \E r \in ApplyIsAdjacent(items[left], items[next]) :
                          CASE r = "true" ->
                                  /\ this' = Some(next)
                                  /\ last' = Some(next)
                                  /\ iter' = Advance(p.it)
                                  /\ UNCHANGED <<pc, result>>
                            [] r = "false" ->
                                  /\ iter' = p.it
                                  /\ pc' = "emit_first"
                                  /\ UNCHANGED <<this, last, result>>
    /\ UNCHANGED <<elem, items, obj, made, prev, need_comma, first, writes, probe>>

\* <T as Debug>::fmt(first, f)?, in either branch of if let Some(last) = last
EmitFirst ==
    /\ obj.variant = "adjacent"
    /\ pc = "emit_first"
    /\ \E ok \in BOOLEAN :
          Write("first", first[1], DebugText(items[first[1]]), ok,
                IF IsRange(first, last) THEN "emit_sep" ELSE "outer")
    /\ UNCHANGED <<elem, items, obj, made, prev, need_comma, iter, first, this, last, evals, probe>>

\* f.write_str(self.sep)?
EmitSep ==
    /\ obj.variant = "adjacent"
    /\ pc = "emit_sep"
    /\ \E ok \in BOOLEAN : Write("sep", 0, obj.sep, ok, "emit_last")
    /\ UNCHANGED <<elem, items, obj, made, prev, need_comma, iter, first, this, last, evals, probe>>

\* <T as Debug>::fmt(last, f)?
EmitLast ==
    /\ obj.variant = "adjacent"
    /\ pc = "emit_last"
    /\ \E ok \in BOOLEAN : Write("last", last[1], DebugText(items[last[1]]), ok, "outer")
    /\ UNCHANGED <<elem, items, obj, made, prev, need_comma, iter, first, this, last, evals, probe>>

\* <DebugAdjacentBy as Debug>::fmt is entered: need_comma and the iterator are set up
FmtEnterBy ==
    /\ obj.variant = "by"
    /\ pc = "idle"
    /\ pc' = "outer"
    /\ need_comma' = NeedCommaInit
    /\ iter' = [ pos |-> 1, peeked |-> None ]
    /\ UNCHANGED <<elem, items, obj, made, prev, result, first, this, last, writes, evals, probe>>

\* while let Some(first) = iter.next(); Ok(()) when the iterator is exhausted
OuterNextBy ==
    /\ obj.variant = "by"
    /\ pc = "outer"
    /\ LET r == PeekableNext(iter)
       IN  /\ iter' = r.it
           /\ IF r.value = None
              THEN /\ pc' = "returned"
                   /\ result' = "Ok"
                   /\ UNCHANGED first
              ELSE /\ pc' = "run_start"
                   /\ first' = r.value
                   /\ UNCHANGED result
    /\ UNCHANGED <<elem, items, obj, made, prev, need_comma, this, last, writes, evals, probe>>

\* if need_comma { f.write_str(", ")?; } need_comma = true; this = first; last = None
RunStartBy ==
    /\ obj.variant = "by"
    /\ pc = "run_start"
    /\ IF need_comma
       THEN \E ok \in BOOLEAN : Write("comma", 0, Text(", "), ok, "inner")
       ELSE /\ pc' = "inner"
            /\ UNCHANGED <<writes, result>>
    /\ IF pc' = "inner"
       THEN /\ need_comma' = NeedCommaSet
            /\ this' = first
            /\ last' = None
       ELSE UNCHANGED <<need_comma, this, last>>
    /\ UNCHANGED <<elem, items, obj, made, prev, iter, first, evals, probe>>

\* one turn of the inner loop: peek, (self.is_adjacent)(this, next), extend the
\* run or break; a panic of the closure unwinds out of fmt
InnerStepBy ==
    /\ obj.variant = "by"
    /\ pc = "inner"
    /\ LET p == PeekablePeek(iter)
       IN  IF p.value = None
           THEN /\ iter' = p.it
                /\ pc' = "emit_first"
                /\ UNCHANGED <<this, last, evals, result>>
           ELSE LET next == p.value[1]
                    left == LeftOperand(first, this)[1]
                IN  /\ evals' = Append(evals, << left, next >>)
                    /\ \E r \in ApplyClosure(obj.is_adjacent, items[left], items[next]) :
                          CASE r = "true" ->
                                  /\ this' = Some(next)
                                  /\ last' = Some(next)
                                  /\ iter' = Advance(p.it)
                                  /\ UNCHANGED <<pc, result>>
                            [] r = "false" ->
                                  /\ iter' = p.it
                                  /\ pc' = "emit_first"
                                  /\ UNCHANGED <<this, last, result>>
                            [] r = "panic" ->
                                  /\ iter' = p.it
                                  /\ pc' = "returned"
                                  /\ result' = "panic"
                                  /\ UNCHANGED <<this, last>>
    /\ UNCHANGED <<elem, items, obj, made, prev, need_comma, first, writes, probe>>

\* <T as Debug>::fmt(first, f)?, in either branch of if let Some(last) = last
EmitFirstBy ==
    /\ obj.variant = "by"
    /\ pc = "emit_first"
    /\ \E ok \in BOOLEAN :
          Write("first", first[1], DebugText(items[first[1]]), ok,
                IF IsRange(first, last) THEN "emit_sep" ELSE "outer")
    /\ UNCHANGED <<elem, items, obj, made, prev, need_comma, iter, first, this, last, evals, probe>>

\* f.write_str(self.sep)?
EmitSepBy ==
    /\ obj.variant = "by"
    /\ pc = "emit_sep"
    /\ \E ok \in BOOLEAN : Write("sep", 0, obj.sep, ok, "emit_last")
    /\ UNCHANGED <<elem, items, obj, made, prev, need_comma, iter, first, this, last, evals, probe>>

\* <T as Debug>::fmt(last, f)?
EmitLastBy ==
    /\ obj.variant = "by"
    /\ pc = "emit_last"
    /\ \E ok \in BOOLEAN : Write("last", last[1], DebugText(items[last[1]]), ok, "outer")
    /\ UNCHANGED <<elem, items, obj, made, prev, need_comma, iter, first, this, last, evals, probe>>

\* the formatter goes out of use; what it wrote is kept when it returned Ok
Drop ==
    /\ pc = "returned"
    /\ prev' = IF result = "Ok"
               THEN [ variant |-> obj.variant, sep |-> obj.sep,
                      is_adjacent |-> obj.is_adjacent, writes |-> writes ]
               ELSE prev
    /\ obj' = NoObj
    /\ pc' = "idle"
    /\ result' = "none"
    /\ need_comma' = FALSE
    /\ iter' = [ pos |-> 1, peeked |-> None ]
    /\ first' = None
    /\ this' = None
    /\ last' = None
    /\ writes' = << >>
    /\ evals' = << >>
    /\ UNCHANGED <<elem, items, made, probe>>

Next ==
    \/ New
    \/ NewBy
    \/ SetSep
    \/ FmtEnter
    \/ OuterNext
    \/ RunStart
    \/ InnerStep
    \/ EmitFirst
    \/ EmitSep
    \/ EmitLast
    \/ FmtEnterBy
    \/ OuterNextBy
    \/ RunStartBy
    \/ InnerStepBy
    \/ EmitFirstBy
    \/ EmitSepBy
    \/ EmitLastBy
    \/ Drop

Spec == Init /\ [][Next]_vars

----------------------------------------------------------------------------
(* IsAdjacent::is_adjacent applied to sampled operands *)

\* the values of type t within Win of its minimum, of zero and of its maximum
IntSamples(t) ==
    { v \in (IntMin(t) .. (IntMin(t) + Win)) \cup ((0 - Win) .. Win)
              \cup ((IntMax(t) - Win) .. IntMax(t)) :
        v >= IntMin(t) /\ v <= IntMax(t) }

\* the chars within Win of U+0000, of the surrogate gap and of char::MAX
CharSamples ==
    (0 .. Win) \cup ((SurrogateLo - 1 - Win) .. (SurrogateLo - 1))
        \cup ((SurrogateHi + 1) .. (SurrogateHi + 1 + Win))
        \cup ((CharMax - Win) .. CharMax)

NoFormatter ==
    /\ obj = NoObj
    /\ made = { }
    /\ prev = NoPrev
    /\ Idle

\* two values v, w of an integer type, and the slice [v, w]
InitInt ==
    /\ NoFormatter
    /\ \E t \in IntTypes :
          \E v \in IntSamples(t), w \in IntSamples(t) :
             /\ probe = [ type |-> t, self |-> v, other |-> w, ret |-> "unset" ]
             /\ elem = t
             /\ items = << v, w >>

\* v.is_adjacent(&w) for an integer type
ApplyInt ==
    /\ probe.type \in IntTypes
    /\ probe.ret = "unset"
    /\ probe' = [ probe EXCEPT !.ret =
                    IF is_adjacent_int(probe.type, probe.self, probe.other)
                    THEN "true" ELSE "false" ]
    /\ UNCHANGED <<elem, items, obj, made, prev, frame>>

\* is_adjacent on the pair, and DebugAdjacent on the slice of the pair
NextInt ==
    \/ ApplyInt
    \/ New
    \/ FmtEnter
    \/ OuterNext
    \/ RunStart
    \/ InnerStep
    \/ EmitFirst
    \/ EmitSep
    \/ EmitLast

SpecInt == InitInt /\ [][NextInt]_vars

InitChar ==
    /\ NoFormatter
    /\ elem = "char"
    /\ items = << >>
    /\ \E c \in CharSamples, d \in CharSamples :
          probe = [ type |-> "char", self |-> c, other |-> d, ret |-> "unset" ]

\* c.is_adjacent(&d) for char
ApplyChar ==
    /\ probe.type = "char"
    /\ probe.ret = "unset"
    /\ probe' = [ probe EXCEPT !.ret =
                    IF is_adjacent_char(probe.self, probe.other) THEN "true" ELSE "false" ]
    /\ UNCHANGED <<elem, items, obj, made, prev, frame>>

NextChar == ApplyChar

SpecChar == InitChar /\ [][NextChar]_vars

----------------------------------------------------------------------------
(* The reference rendering: the maximal runs of the slice, written out *)

\* the predicate a formatter o is meant to apply to the items at i and i + 1
HoldsAt(o, i) ==
    IF o.variant = "adjacent"
    THEN items[i + 1] - items[i] = 1
    ELSE IF o.is_adjacent = "succ"
         THEN "true" \in closure_succ(items[i], items[i + 1])
         ELSE "true" \in closure_chain(items[i], items[i + 1])

\* the positions after which a run ends before the end of the slice
Breaks(o) == { i \in 1 .. (Len(items) - 1) : ~HoldsAt(o, i) }

\* where the maximal run that starts at s ends
RunEnd(o, s) ==
    LET ends == { b \in Breaks(o) \cup { Len(items) } : b >= s }
    IN  CHOOSE b \in ends : \A c \in ends : b <= c

RunStarts(o) == IF items = << >> THEN { } ELSE { 1 } \cup { i + 1 : i \in Breaks(o) }

RunPieces(o, s) ==
    IF RunEnd(o, s) = s
    THEN << DebugText(items[s]) >>
    ELSE << DebugText(items[s]), o.sep, DebugText(items[RunEnd(o, s)]) >>

RECURSIVE RefPiecesFrom(_, _)
RefPiecesFrom(o, s) ==
    IF s > Len(items) THEN << >>
    ELSE RunPieces(o, s) \o
         (IF RunEnd(o, s) < Len(items)
          THEN << Text(", ") >> \o RefPiecesFrom(o, RunEnd(o, s) + 1)
          ELSE << >>)

\* the pieces of the reference rendering, one per write
RefPieces(o) == RefPiecesFrom(o, 1)

RECURSIVE Concat(_)
Concat(ps) == IF ps = << >> THEN << >> ELSE Head(ps) \o Concat(Tail(ps))

RefRender(o) == Concat(RefPieces(o))

\* what the sink has received: the text of the writes that succeeded
Output == Concat([ i \in 1 .. Len(writes) |-> IF writes[i].ok THEN writes[i].text ELSE << >> ])

WriteTexts(ws) == [ i \in 1 .. Len(ws) |-> ws[i].text ]

CountKind(ws, k) == Cardinality({ i \in 1 .. Len(ws) : ws[i].kind = k })

ReturnedOk == pc = "returned" /\ result = "Ok"

----------------------------------------------------------------------------
(* The claims *)

\* C1: when fmt returns Ok, the text the sink received is the reference
\* rendering: the maximal runs in order, a run of one item as its debug text,
\* a longer run as debug(first) sep debug(last), joined with ", ".
C1_RendersMaximalRuns == ReturnedOk => Output = RefRender(obj)

\* a slice with a run of three items or two runs, one of them a pair, was rendered
C1_Witness ==
    /\ ReturnedOk
    /\ Len(items) = 3
    /\ Cardinality(RunStarts(obj)) = 2
    /\ \E s \in RunStarts(obj) : RunEnd(obj, s) = s + 1

\* C2: for a fixed-width integer type, is_adjacent(v, w) is true exactly when
\* w - v = 1 in unbounded integers; it is false when the machine subtraction
\* leaves the type's range, so the maximum is adjacent to nothing and a slice
\* [MAX, x] is rendered as two runs.
C2_IntAdjacency ==
    (probe.type \in IntTypes /\ probe.ret # "unset") =>
        /\ (probe.ret = "true") <=> (probe.other - probe.self = 1)
        /\ (probe.self = IntMax(probe.type)) => (probe.ret = "false")
        /\ (probe.other - probe.self < IntMin(probe.type)
              \/ probe.other - probe.self > IntMax(probe.type)) => (probe.ret = "false")
        /\ (ReturnedOk /\ items[1] = IntMax(elem)) =>
              /\ CountKind(writes, "comma") = 1
              /\ CountKind(writes, "sep") = 0
              /\ Output = DebugText(items[1]) \o Text(", ") \o DebugText(items[2])

\* the maximum of a signed type was tested against the minimum (the
\* subtraction underflows) with the answer false, and [MAX, MIN] was rendered
C2_Witness ==
    /\ probe.type = "i8"
    /\ probe.self = IntMax("i8")
    /\ probe.other = IntMin("i8")
    /\ probe.ret = "false"
    /\ ReturnedOk

IsScalarValue(x) == x >= 0 /\ x <= CharMax /\ ~(x >= SurrogateLo /\ x <= SurrogateHi)

\* C3: for chars c and d, is_adjacent(c, d) is true exactly when code(c) + 1
\* is a Unicode scalar value and equals code(d); U+D7FF and U+10FFFF are
\* adjacent to nothing.
C3_CharAdjacency ==
    (probe.type = "char" /\ probe.ret # "unset") =>
        /\ (probe.ret = "true") <=>
              (IsScalarValue(probe.self + 1) /\ probe.self + 1 = probe.other)
        /\ (probe.self = SurrogateLo - 1) => (probe.ret = "false")
        /\ (probe.self = CharMax) => (probe.ret = "false")

\* U+D7FF was tested against U+E000, and the answer is false
C3_Witness ==
    /\ probe.type = "char"
    /\ probe.self = SurrogateLo - 1
    /\ probe.other = SurrogateHi + 1
    /\ probe.ret = "false"

\* the items at i .. j are chained by the predicate, pair by consecutive pair
Linked(o, i, j) == \A k \in i .. (j - 1) : HoldsAt(o, k)

\* C4: a run is extended by the predicate on (run tail, next item) at
\* consecutive positions only: items chained pair by pair are one run even
\* when the predicate fails on (first, last), as [1, 2, 4] -> "1-4" under the
\* predicate that holds for (1, 2) and (2, 4) only.
C4_ChainsByConsecutivePairs ==
    /\ \A e \in 1 .. Len(evals) : evals[e][2] = evals[e][1] + 1
    /\ ReturnedOk =>
          /\ \A i \in 1 .. Len(items), j \in 1 .. Len(items) :
                (i < j /\ Linked(obj, i, j)) =>
                   ~\E w \in 1 .. Len(writes) :
                        writes[w].kind = "first" /\ writes[w].at \in (i + 1) .. j
          /\ (obj.is_adjacent = "chain" /\ items = << 1, 2, 4 >> /\ obj.sep = Text("-")) =>
                Output = << "1", "-", "4" >>

\* [1, 2, 4] was rendered under the chained predicate
C4_Witness ==
    /\ ReturnedOk
    /\ obj.is_adjacent = "chain"
    /\ items = << 1, 2, 4 >>
    /\ "true" \notin closure_chain(items[1], items[3])

\* C5: when fmt returns Ok, the output is empty exactly when the slice is
\* empty, and the output for [x] is the debug text of x.
C5_EmptyIffEmpty ==
    ReturnedOk =>
        /\ (Output = << >>) <=> (items = << >>)
        /\ (Len(items) = 1) => (Output = DebugText(items[1]))

\* a one-item slice was rendered by DebugAdjacentBy with a separator of the caller
C5_Witness ==
    /\ ReturnedOk
    /\ Len(items) = 1
    /\ obj.variant = "by"
    /\ obj.sep = Text("..")

NoAdjacentPair(o) == Breaks(o) = 1 .. (Len(items) - 1)

RECURSIVE JoinFrom(_)
JoinFrom(i) ==
    IF i > Len(items) THEN << >>
    ELSE DebugText(items[i]) \o (IF i < Len(items) THEN Text(", ") \o JoinFrom(i + 1) ELSE << >>)

\* C6: for a slice of n items with no adjacent consecutive pair, the output
\* is the debug texts of all n items joined with ", ": every item is
\* written, the range separator never, ", " n - 1 times and neither first nor last.
C6_NoRunsIsPlainJoin ==
    (ReturnedOk /\ NoAdjacentPair(obj)) =>
        /\ Output = JoinFrom(1)
        /\ CountKind(writes, "sep") = 0
        /\ \A i \in 1 .. Len(items) :
              \E w \in 1 .. Len(writes) : writes[w].kind = "first" /\ writes[w].at = i
        /\ (Len(items) >= 1) =>
              /\ CountKind(writes, "comma") = Len(items) - 1
              /\ writes[1].kind # "comma"
              /\ writes[Len(writes)].kind # "comma"

\* a slice of three items, no two of them adjacent, was rendered
C6_Witness ==
    /\ ReturnedOk
    /\ Len(items) = 3
    /\ NoAdjacentPair(obj)

\* where the writes of a finished rendering put the two separators
SepPlacement ==
    /\ CountKind(writes, "sep") =
          Cardinality({ s \in RunStarts(obj) : RunEnd(obj, s) > s })
    /\ \A w \in 1 .. Len(writes) :
          (writes[w].kind = "sep") =>
             /\ writes[w].text = obj.sep
             /\ w > 1 /\ w < Len(writes)
             /\ writes[w - 1].kind = "first"
             /\ writes[w + 1].kind = "last"
             /\ writes[w - 1].at \in RunStarts(obj)
             /\ writes[w + 1].at = RunEnd(obj, writes[w - 1].at)
             /\ writes[w + 1].at > writes[w - 1].at
    /\ \A w \in 1 .. Len(writes) :
          (writes[w].kind = "first" /\ RunEnd(obj, writes[w].at) = writes[w].at) =>
             (w = Len(writes) \/ writes[w + 1].kind = "comma")
    /\ \A w \in 1 .. Len(writes) :
          (writes[w].kind = "comma") => writes[w].text = << ",", " " >>
    /\ (items # << >>) => CountKind(writes, "comma") = Cardinality(RunStarts(obj)) - 1
    /\ (items = << IntMin(elem), IntMin(elem) + 1, 2 >> /\ obj.sep = << "-" >>
           /\ obj.is_adjacent # "chain") =>
          Output = << "-", "1", "2", "8", "-", "-", "1", "2", "7", ",", " ", "2" >>

\* C7: both constructors set the range separator to "-"; a rendering writes
\* the configured separator once per run of two items or more, directly
\* between the debug texts of the run's first and last item, and never for a
\* run of one item; between runs it writes ", ", (number of runs - 1) times,
\* whatever the range separator is.
C7_Separators ==
    /\ [][(obj = NoObj /\ obj' # NoObj) => obj'.sep = << "-" >>]_vars
    /\ [](ReturnedOk => SepPlacement)

\* [MIN, MIN + 1, 2] was rendered with the default separator: a double hyphen
C7_Witness ==
    /\ ReturnedOk
    /\ items = << IntMin(elem), IntMin(elem) + 1, 2 >>
    /\ obj.sep = << "-" >>
    /\ Output = << "-", "1", "2", "8", "-", "-", "1", "2", "7", ",", " ", "2" >>

FailedWrites == { i \in 1 .. Len(writes) : ~writes[i].ok }

Rank(p) ==
    CASE p = "run_start"  -> 6
      [] p = "inner"      -> 5
      [] p = "emit_first" -> 4
      [] p = "emit_sep"   -> 3
      [] p = "emit_last"  -> 2
      [] p = "outer"      -> 1
      [] OTHER            -> 0

\* what is left of a call of fmt: the items not consumed, then the steps of the run
Measure == 6 * (Len(items) - Consumed(iter)) + Rank(pc)

InFmt == pc \notin { "idle", "returned" }

AllPairs == [ i \in 1 .. (Len(items) - 1) |-> << i, i + 1 >> ]

\* C9: fmt is one forward pass that ends: every step of fmt lowers a measure
\* that is never negative, the cursor never moves back, a step of the outer or
\* inner loop consumes one item or closes the run (or returns), and a call that
\* returns Ok has exhausted the iterator and has evaluated the predicate once
\* for each consecutive pair, in order: n - 1 times, none for an empty slice.
C9_SinglePass ==
    /\ [][InFmt => (Measure' < Measure /\ iter'.pos >= iter.pos
                     /\ Consumed(iter') >= Consumed(iter))]_vars
    /\ [][(pc = "inner" /\ pc' = "inner") => Consumed(iter') = Consumed(iter) + 1]_vars
    /\ [][(pc = "outer" /\ pc' # "returned") => Consumed(iter') = Consumed(iter) + 1]_vars
    /\ [](Measure >= 0)
    /\ [](Len(evals) <= Len(AllPairs) /\ evals = SubSeq(AllPairs, 1, Len(evals)))
    /\ [](ReturnedOk =>
             /\ Consumed(iter) = Len(items)
             /\ PeekableNext(iter).value = None
             /\ evals = AllPairs
             /\ Len(evals) = IF Len(items) = 0 THEN 0 ELSE Len(items) - 1)

\* a slice of three items in two runs was rendered: one check closed a run
C9_Witness ==
    /\ ReturnedOk
    /\ Len(items) = 3
    /\ Len(evals) = 2
    /\ Cardinality(RunStarts(obj)) = 2

\* the closure of the DebugAdjacentBy among the two formatters compared
ByClosure == IF obj.variant = "by" THEN obj.is_adjacent ELSE prev.is_adjacent

\* the closure answers as the built-in adjacency on every consecutive pair
Agrees(f) ==
    \A i \in 1 .. (Len(items) - 1) :
        (IF f = "succ" THEN closure_succ(items[i], items[i + 1])
                       ELSE closure_chain(items[i], items[i + 1]))
           = { IF is_adjacent_int(elem, items[i], items[i + 1]) THEN "true" ELSE "false" }

BothRendered ==
    /\ ReturnedOk
    /\ prev.variant \notin { "none", obj.variant }
    /\ prev.sep = obj.sep

\* C10: on the same slice and with the same range separator, DebugAdjacentBy
\* with a closure that agrees with the built-in adjacency on every consecutive
\* pair makes the same writes, and so the same output, as DebugAdjacent.
C10_VariantsAgree == (BothRendered /\ Agrees(ByClosure)) => writes = prev.writes

\* DebugAdjacent, then DebugAdjacentBy with a + 1 == b, rendered a slice of
\* three items in two runs with the separator ".."
C10_Witness ==
    /\ BothRendered
    /\ obj.variant = "by"
    /\ obj.is_adjacent = "succ"
    /\ Agrees("succ")
    /\ obj.sep = Text("..")
    /\ Len(items) = 3
    /\ CountKind(writes, "sep") = 1
    /\ CountKind(writes, "comma") = 1

====
